---------------------------- MODULE Spec2Model ----------------------------
(***************************************************************************)
(* A model of sphinx_github_style/__init__.py: the revision and URL        *)
(* template computed by setup(), the built-in linkcode_resolve closure and *)
(* the doctree-read handler that attaches "[source]" links.                *)
(*                                                                         *)
(* Strings are sequences of tokens.  A token is an indivisible chunk of    *)
(* text; in every URL the slash is a token of its own, so that strip("/")  *)
(* and split(".") are computed on the text and not assumed.  Python's None *)
(* is the one-token sequence None, which no input string contains.         *)
(***************************************************************************)
EXTENDS Integers, Sequences, FiniteSets, TLC

VARIABLES
    pc,            \* position of setup(): start, url, repo, resolver, connect, done, failed; "api" for a direct call
    config,        \* app.config / app.config._raw_config: the values of conf.py
    git,           \* the state of the working directory as the git commands report it
    world,         \* the loaded program: sys.modules and what introspection finds in it
    blob,          \* setup: the value of get_linkcode_revision(linkcode_blob), line 90
    linkcode_url,  \* setup: the URL template, line 89
    repo_dir,      \* setup: the repository root, line 95
    error,         \* the exception that escaped setup() or doctree_read(), "" when none
    vcs_log,       \* the git commands run so far, in order
    connected,     \* the events setup() has connected a handler to
    doctree,       \* the doctree last handed to doctree_read
    links,         \* per desc node and child of that doctree, the refuris appended to it
    call,          \* the last direct call of a function: its name and arguments
    ret            \* the outcome of that call

vars == <<pc, config, git, world, blob, linkcode_url, repo_dir, error,
          vcs_log, connected, doctree, links, call, ret>>

-----------------------------------------------------------------------------
(* Values *)

None == <<"None">>

\* Python truthiness of an optional string: None and "" are falsy.
Truthy(s) == s # None /\ s # <<>>

\* The outcome of a call: the exception that escaped it ("" when it returned),
\* the exception it was raised from, the value returned, the git commands it ran.
Return(v, cmds) == [exc |-> "", cause |-> "", val |-> v, vcs |-> cmds]
Raise(e, c, cmds) == [exc |-> e, cause |-> c, val |-> None, vcs |-> cmds]
NoRet == [exc |-> "", cause |-> "", val |-> <<"not called">>, vcs |-> <<>>]

\* sphinx.errors.ExtensionError is the configuration error of the host framework.
ExtensionError == "ExtensionError"

-----------------------------------------------------------------------------
(* Text *)

RECURSIVE LStrip(_, _)
LStrip(s, ch) ==
    IF s # <<>> /\ Head(s) = ch THEN LStrip(Tail(s), ch) ELSE s

RECURSIVE RStrip(_, _)
RStrip(s, ch) ==
    IF s # <<>> /\ s[Len(s)] = ch THEN RStrip(SubSeq(s, 1, Len(s) - 1), ch) ELSE s

\* str.strip(ch): every leading and every trailing ch is removed.
Strip(s, ch) == RStrip(LStrip(s, ch), ch)

\* str.split(sep): the pieces between the separators; "".split(".") is [""].
RECURSIVE Split(_, _)
Split(s, sep) ==
    IF s = <<>> THEN << <<>> >>
    ELSE LET rest == Split(Tail(s), sep)
         IN  IF Head(s) = sep THEN << <<>> >> \o rest
             ELSE << <<Head(s)>> \o rest[1] >> \o Tail(rest)

Digit(d) ==
    CASE d = 0 -> "0" [] d = 1 -> "1" [] d = 2 -> "2" [] d = 3 -> "3" [] d = 4 -> "4"
      [] d = 5 -> "5" [] d = 6 -> "6" [] d = 7 -> "7" [] d = 8 -> "8" [] d = 9 -> "9"

\* str(n) of a non-negative integer.
RECURSIVE Dec(_)
Dec(n) == IF n < 10 THEN <<Digit(n)>> ELSE Dec(n \div 10) \o <<Digit(n % 10)>>

RECURSIVE Count(_, _)
Count(s, tok) ==
    IF s = <<>> THEN 0 ELSE (IF Head(s) = tok THEN 1 ELSE 0) + Count(Tail(s), tok)

\* Whether t occurs in s as a contiguous run of tokens.
Contains(s, t) ==
    \E i \in 1..(Len(s) - Len(t) + 1) : SubSeq(s, i, i + Len(t) - 1) = t

UrlSuffix == <<"{filepath}", "#L", "{linestart}", "-L", "{linestop}">>

\* str.format(filepath=..., linestart=..., linestop=...): each slot is replaced.
RECURSIVE Format(_, _, _, _)
Format(tpl, filepath, linestart, linestop) ==
    IF tpl = <<>> THEN <<>>
    ELSE (CASE Head(tpl) = "{filepath}" -> filepath
            [] Head(tpl) = "{linestart}" -> Dec(linestart)
            [] Head(tpl) = "{linestop}" -> Dec(linestop)
            [] OTHER -> <<Head(tpl)>>)
         \o Format(Tail(tpl), filepath, linestart, linestop)

-----------------------------------------------------------------------------
(* The version-control commands *)

\* subprocess.check_output of one git command in working directory g: the
\* output, or CalledProcessError on a non-zero exit.
check_output(g, cmd) ==
    CASE cmd = "log" ->
           IF g.repo THEN Return(g.head, <<cmd>>)
           ELSE Raise("CalledProcessError", "", <<cmd>>)
      [] cmd = "describe_exact" ->
           IF g.repo /\ g.head_tag # None THEN Return(g.head_tag, <<cmd>>)
           ELSE Raise("CalledProcessError", "", <<cmd>>)
      [] cmd = "describe_last" ->
           IF g.repo /\ g.last_tag # None THEN Return(g.last_tag, <<cmd>>)
           ELSE Raise("CalledProcessError", "", <<cmd>>)
      [] cmd = "toplevel" ->
           IF g.repo THEN Return(g.toplevel, <<cmd>>)
           ELSE Raise("CalledProcessError", "", <<cmd>>)

\* get_head without lines 152-156: the tag of the commit is never looked up.
get_head_untagged(g) ==
    LET head == check_output(g, "log")
    IN  IF head.exc # "" THEN Return(<<"master">>, head.vcs)
        ELSE Return(head.val, head.vcs)

get_head(g) ==
    LET head == check_output(g, "log")
    IN  IF head.exc # "" THEN Return(<<"master">>, head.vcs)
        ELSE LET tag == check_output(g, "describe_exact")
             IN  IF tag.exc = "" THEN Return(tag.val, head.vcs \o tag.vcs)
                 ELSE Return(head.val, head.vcs \o tag.vcs)

get_last_tag(g) ==
    LET tag == check_output(g, "describe_last")
    IN  IF tag.exc = "" THEN Return(tag.val, tag.vcs)
        ELSE Raise(ExtensionError, "", tag.vcs)

get_linkcode_revision(b, g) ==
    IF b = <<"head">> THEN get_head(g)
    ELSE IF b = <<"last_tag">> THEN get_last_tag(g)
    ELSE Return(b, <<>>)

get_repo_dir(g) ==
    LET top == check_output(g, "toplevel")
    IN  IF top.exc = "" THEN Return(top.val, top.vcs)
        ELSE Raise("RuntimeError", top.exc, top.vcs)

-----------------------------------------------------------------------------
(* The URL template *)

\* dict.get(key) of html_context; an absent key has the value None.
ContextGet(context, key) ==
    CASE key = "github_user" -> context.github_user
      [] key = "github_repo" -> context.github_repo
      [] key = "github_version" -> context.github_version

\* Lines 188-197: the base URL, given or made from html_context.
BaseUrl(context, url) ==
    IF url # None THEN Return(url, <<>>)
    ELSE IF context.is_none
            \/ ~(\A key \in {"github_user", "github_repo"} : Truthy(ContextGet(context, key)))
         THEN Raise(ExtensionError, "", <<>>)
         ELSE Return(<<"https:", "/", "/", "github.com", "/">>
                        \o ContextGet(context, "github_user")
                        \o <<"/">> \o ContextGet(context, "github_repo"), <<>>)

\* Line 199: the revision, resolved from blob or read from html_context.
UrlRevision(b, context, g) ==
    IF Truthy(b) THEN get_linkcode_revision(b, g)
    ELSE IF context.is_none THEN Raise("AttributeError", "", <<>>)
    ELSE Return(ContextGet(context, "github_version"), <<>>)

get_linkcode_url(b, context, url, g) ==
    LET base == BaseUrl(context, url)
    IN  IF base.exc # "" THEN base
        ELSE LET rev == UrlRevision(b, context, g)
             IN  IF rev.exc # "" THEN rev
                 ELSE IF rev.val # None
                      THEN Return(Strip(base.val, "/") \o <<"/blob/">> \o rev.val \o <<"/">>
                                     \o UrlSuffix, rev.vcs)
                      ELSE Raise(ExtensionError, "", rev.vcs)

-----------------------------------------------------------------------------
(* The loaded program, as introspection sees it *)

\* A path is a tuple of directory and file names.  Path.relative_to(root):
\* ValueError unless root is a prefix of the path.
IsUnder(path, root) ==
    Len(root) <= Len(path) /\ SubSeq(path, 1, Len(root)) = root

relative_to(path, root) == SubSeq(path, Len(root) + 1, Len(path))

\* PurePath.as_posix(): the names joined by forward slashes.
RECURSIVE as_posix(_)
as_posix(path) ==
    IF path = <<>> THEN <<>>
    ELSE IF Len(path) = 1 THEN <<path[1]>>
    ELSE <<path[1], "/">> \o as_posix(Tail(path))

NoneType == [kind |-> "NoneType"]

\* Lines 240-244: getattr along the dotted name; w.attr gives, for each
\* prefix of the name, whether the attribute access succeeds, raises
\* AttributeError or raises another exception.  A name the program does not
\* define raises AttributeError.
RECURSIVE GetAttrs(_, _, _)
GetAttrs(w, parts, i) ==
    IF i > Len(parts) THEN "ok"
    ELSE LET prefix == SubSeq(parts, 1, i)
             outcome == IF prefix \in DOMAIN w.attr THEN w.attr[prefix]
                        ELSE "AttributeError"
         IN  IF outcome = "ok" THEN GetAttrs(w, parts, i + 1) ELSE outcome

\* Lines 246-249: a property is replaced by its getter, a cached_property by
\* its function.
UnwrapProperty(obj) ==
    CASE obj.kind = "property" -> obj.fget
      [] obj.kind = "cached_property" -> obj.func
      [] OTHER -> obj

\* inspect.unwrap: the innermost function of a decorated one.
unwrap(obj) ==
    IF obj.kind = "function" /\ obj.wrapped.kind # "NoneType" THEN obj.wrapped ELSE obj

\* Lines 252-257: inspect.getsourcefile(inspect.unwrap(obj)) relative to the
\* repository root; any exception is caught.
SourceFile(obj, root) ==
    LET o == unwrap(obj)
    IN  IF o.kind \notin {"function", "module"} THEN Raise("TypeError", "", <<>>)
        ELSE IF o.file = None THEN Raise("TypeError", "", <<>>)
        ELSE IF ~IsUnder(o.file, root) THEN Raise("ValueError", "", <<>>)
        ELSE Return(relative_to(o.file, root), <<>>)

\* Lines 259-262: inspect.getsourcelines(obj), which unwraps obj itself: the
\* number of source lines and the first line; for a module, all lines and 0.
SourceLines(obj) ==
    LET o == unwrap(obj)
    IN  IF o.kind \notin {"function", "module"} THEN Raise("TypeError", "", <<>>)
        ELSE IF ~o.lines_ok THEN Raise("OSError", "", <<>>)
        ELSE IF o.kind = "module" THEN Return([len |-> o.nlines, lineno |-> 0], <<>>)
        ELSE Return([len |-> o.nlines, lineno |-> o.lineno], <<>>)

\* FinalLink with linestop one line too far (lineno + len(source)).
FinalLinkOffByOne(tpl, filepath, src) ==
    Format(tpl, as_posix(filepath), src.lineno, src.lineno + src.len)

\* Lines 264-273.
FinalLink(tpl, filepath, src) ==
    Format(tpl, as_posix(filepath), src.lineno, src.lineno + src.len - 1)

\* Lines 239-273: from the module object to the link.
ResolveObject(tpl, root, w, fullname) ==
    LET parts == Split(fullname, ".")
        found == GetAttrs(w, parts, 1)
    IN  IF found = "AttributeError" THEN Return(None, <<>>)
        ELSE IF found # "ok" THEN Raise(found, "", <<>>)
        ELSE LET obj == UnwrapProperty(w.obj[parts])
                 filepath == SourceFile(obj, root)
                 src == SourceLines(obj)
             IN  IF filepath.exc # "" THEN Return(None, <<>>)
                 ELSE IF src.exc # "" THEN Return(None, <<>>)
                 ELSE Return(FinalLink(tpl, filepath.val, src.val), <<>>)

\* linkcode_resolve without the domain test of line 229.
linkcode_resolve_any_domain(tpl, root, w, domain, info) ==
    IF "module" \notin DOMAIN info THEN Raise("KeyError", "", <<>>)
    ELSE IF ~Truthy(info["module"]) THEN Return(None, <<>>)
    ELSE IF "fullname" \notin DOMAIN info THEN Raise("KeyError", "", <<>>)
    ELSE IF info["module"] \notin w.modules THEN Return(None, <<>>)
    ELSE ResolveObject(tpl, root, w, info["fullname"])

\* Lines 221-273: the closure get_linkcode_resolve(tpl, root) returns.  info
\* is a dict: a function from its keys to strings.
linkcode_resolve(tpl, root, w, domain, info) ==
    IF domain # "py" THEN Return(None, <<>>)
    ELSE IF "module" \notin DOMAIN info THEN Raise("KeyError", "", <<>>)
    ELSE IF ~Truthy(info["module"]) THEN Return(None, <<>>)
    ELSE IF "fullname" \notin DOMAIN info THEN Raise("KeyError", "", <<>>)
    ELSE IF info["module"] \notin w.modules THEN Return(None, <<>>)
    ELSE ResolveObject(tpl, root, w, info["fullname"])

-----------------------------------------------------------------------------
(* The configured resolver *)

NoResolver == [kind |-> "None", fn |-> "", linkcode_url |-> None, repo_dir |-> <<>>]
StrResolver == [kind |-> "str", fn |-> "", linkcode_url |-> None, repo_dir |-> <<>>]
UserResolver(fn) == [kind |-> "function", fn |-> fn, linkcode_url |-> None, repo_dir |-> <<>>]

\* Lines 210-275: get_linkcode_resolve(linkcode_url, repo_dir).
get_linkcode_resolve(tpl, root) ==
    [kind |-> "function", fn |-> "linkcode_resolve", linkcode_url |-> tpl, repo_dir |-> root]

callable(f) == f.kind = "function"

\* The name a reference carries, whatever its domain.
InfoName(info) ==
    IF "fullname" \in DOMAIN info THEN info["fullname"]
    ELSE IF "names" \in DOMAIN info THEN info["names"]
    ELSE <<>>

\* A linkcode_resolve written in conf.py.  Three such functions: one link per
\* name, the same link for everything, and the empty string for everything.
UserResolve(fn, domain, info) ==
    CASE fn = "by_name" ->
           IF Truthy(InfoName(info))
           THEN Return(<<"https://example.org/", domain, "/">> \o InfoName(info), <<>>)
           ELSE Return(None, <<>>)
      [] fn = "constant" -> Return(<<"https://example.org/src">>, <<>>)
      [] fn = "empty" -> Return(<<>>, <<>>)

\* Line 66: resolve_target(domain, info).
resolve_target(f, w, domain, info) ==
    IF f.fn = "linkcode_resolve"
    THEN linkcode_resolve(f.linkcode_url, f.repo_dir, w, domain, info)
    ELSE UserResolve(f.fn, domain, info)

-----------------------------------------------------------------------------
(* doctree_read *)

\* Lines 41-46.
domain_keys(domain) ==
    CASE domain = "py" -> {"module", "fullname"}
      [] domain \in {"c", "cpp"} -> {"names"}
      [] domain = "js" -> {"object", "fullname"}
      [] OTHER -> {}

\* Lines 56-61: signode.get(key), '' when absent or falsy.
SigInfo(domain, signode) ==
    [key \in domain_keys(domain) |->
        IF key \in DOMAIN signode.attrs /\ Truthy(signode.attrs[key])
        THEN signode.attrs[key] ELSE <<>>]

\* ReadSignatures without line 74 (uris.add): the links of a node are not remembered.
RECURSIVE ReadSignaturesForgetful(_, _, _, _, _, _, _)
ReadSignaturesForgetful(f, w, domain, children, i, uris, acc) ==
    IF i > Len(children) THEN [links |-> acc, exc |-> ""]
    ELSE LET signode == children[i]
             info == SigInfo(domain, signode)
             skip == ReadSignaturesForgetful(f, w, domain, children, i + 1, uris,
                                             Append(acc, <<>>))
         IN  IF ~signode.is_signature THEN skip
             ELSE IF DOMAIN info = {} THEN skip
             ELSE LET uri == resolve_target(f, w, domain, info)
                  IN  IF uri.exc # "" THEN [links |-> acc, exc |-> uri.exc]
                      ELSE IF ~Truthy(uri.val) THEN skip
                      ELSE IF uri.val \in uris THEN skip
                      ELSE ReadSignaturesForgetful(f, w, domain, children, i + 1,
                                                   uris, Append(acc, <<uri.val>>))

\* Lines 51-81: the children of one desc node from the i-th on; uris are the
\* links this node already carries, acc the refuris appended to the children
\* before the i-th.  An exception of the resolver ends the traversal.
RECURSIVE ReadSignatures(_, _, _, _, _, _, _)
ReadSignatures(f, w, domain, children, i, uris, acc) ==
    IF i > Len(children) THEN [links |-> acc, exc |-> ""]
    ELSE LET signode == children[i]
             info == SigInfo(domain, signode)
             skip == ReadSignatures(f, w, domain, children, i + 1, uris, Append(acc, <<>>))
         IN  IF ~signode.is_signature THEN skip
             ELSE IF DOMAIN info = {} THEN skip
             ELSE LET uri == resolve_target(f, w, domain, info)
                  IN  IF uri.exc # "" THEN [links |-> acc, exc |-> uri.exc]
                      ELSE IF ~Truthy(uri.val) THEN skip
                      ELSE IF uri.val \in uris THEN skip
                      ELSE ReadSignatures(f, w, domain, children, i + 1,
                                          uris \cup {uri.val}, Append(acc, <<uri.val>>))

\* Lines 48-50: each desc node starts with no link.
ReadNode(f, w, objnode) ==
    ReadSignatures(f, w, objnode.domain, objnode.children, 1, {}, <<>>)

\* Lines 48-81: the desc nodes of the doctree from the n-th on.
RECURSIVE ReadNodes(_, _, _, _, _)
ReadNodes(f, w, tree, n, acc) ==
    IF n > Len(tree) THEN [links |-> acc, exc |-> ""]
    ELSE LET r == ReadNode(f, w, tree[n])
         IN  IF r.exc # "" THEN [links |-> Append(acc, r.links), exc |-> r.exc]
             ELSE ReadNodes(f, w, tree, n + 1, Append(acc, r.links))

\* Lines 32-81.
doctree_read(cfg, w, tree) ==
    IF ~callable(cfg.linkcode_resolve) THEN [links |-> <<>>, exc |-> "LinkcodeError"]
    ELSE ReadNodes(cfg.linkcode_resolve, w, tree, 1, <<>>)

-----------------------------------------------------------------------------
(* Inputs: working directories *)

Hash == <<"3f2a9c1">>
RepoRoot == <<"home", "proj">>
Tags == {<<"v1.0">>, <<"head">>}

\* Not a repository: every git command exits non-zero.
NoRepo == [repo |-> FALSE, head |-> None, head_tag |-> None, last_tag |-> None,
           toplevel |-> <<>>]

\* A repository whose most recent commit carries head_tag (None: untagged)
\* and whose most recent tag on the branch is last_tag (None: no tag).
Repo(head_tag, last_tag) ==
    [repo |-> TRUE, head |-> Hash, head_tag |-> head_tag, last_tag |-> last_tag,
     toplevel |-> RepoRoot]

Gits == {NoRepo} \cup {Repo(None, l) : l \in Tags \cup {None}} \cup {Repo(t, t) : t \in Tags}

(* Inputs: conf.py *)

NoContext == [is_none |-> TRUE, github_user |-> None, github_repo |-> None,
              github_version |-> None]
Context(user, repo, version) ==
    [is_none |-> FALSE, github_user |-> user, github_repo |-> repo,
     github_version |-> version]
EmptyContext == Context(None, None, None)
UserRepoContext == Context(<<"u">>, <<"r">>, None)

MaxSlashes == 2

Slashes(n) == [i \in 1..n |-> "/"]

\* Base URLs: absolute and protocol-relative, with and without trailing slashes.
Urls ==
    {<<"https:", "/", "/", "github.com", "/", "u", "/", "r">> \o Slashes(j) : j \in 0..MaxSlashes}
    \cup {Slashes(k) \o <<"github.com", "/", "u", "/", "r">> \o Slashes(j) :
            k \in 0..MaxSlashes, j \in 0..MaxSlashes}

Blobs == {<<"head">>, <<"last_tag">>, <<"main">>}

UserFns == {"by_name", "constant", "empty"}

\* Lines 295-301: get_conf_val; a value conf.py does not set is None here, and
\* reads as the default it was registered with (line 86), if any.
get_conf_val(cfg, attr) ==
    CASE attr = "linkcode_blob" ->
           IF cfg.linkcode_blob = None THEN <<"head">> ELSE cfg.linkcode_blob
      [] attr = "linkcode_url" -> cfg.linkcode_url
      [] attr = "html_context" -> cfg.html_context
      [] attr = "linkcode_resolve" -> cfg.linkcode_resolve

\* Lines 304-311: set_conf_val.
set_conf_val(cfg, attr, value) ==
    CASE attr = "linkcode_resolve" -> [cfg EXCEPT !.linkcode_resolve = value]

\* The conf.py files: html_context names the repository only where
\* linkcode_url may be missing.
Configs ==
    {c \in [linkcode_blob : {None, <<"last_tag">>, <<"main">>},
            linkcode_url : {None, <<"https:", "/", "/", "github.com", "/", "u", "/", "r", "/">>},
            html_context : {EmptyContext, UserRepoContext},
            linkcode_resolve : {NoResolver, StrResolver}
                                 \cup {UserResolver(fn) : fn \in UserFns}] :
        c.linkcode_url # None => c.html_context = EmptyContext}

(* Inputs: the loaded program *)

InRepoFile == <<"home", "proj", "pkg", "mod.py">>
OutsideFile == <<"usr", "lib", "functools.py">>

Function(file, lineno, nlines, lines_ok) ==
    [kind |-> "function", file |-> file, lineno |-> lineno, nlines |-> nlines,
     lines_ok |-> lines_ok, wrapped |-> NoneType]
Decorated(wrapper, inner) == [wrapper EXCEPT !.wrapped = inner]
Module(file, nlines) ==
    [kind |-> "module", file |-> file, nlines |-> nlines, lines_ok |-> TRUE]
Builtin == [kind |-> "builtin"]
Property(fget) == [kind |-> "property", fget |-> fget]
CachedProperty(func) == [kind |-> "cached_property", func |-> func]

Method == Function(InRepoFile, 10, 6, TRUE)
Class == Function(InRepoFile, 1, 20, TRUE)

Objects ==
    {Method, Class,
     Function(InRepoFile, 3, 1, TRUE),
     Function(InRepoFile, 10, 6, FALSE),
     Function(OutsideFile, 10, 6, TRUE),
     Function(None, 10, 6, TRUE),
     Decorated(Function(OutsideFile, 40, 3, TRUE), Method),
     Decorated(Function(InRepoFile, 3, 1, TRUE), Method),
     Module(InRepoFile, 20),
     Builtin,
     Property(Method), Property(NoneType),
     Property(Decorated(Function(OutsideFile, 40, 3, TRUE), Method)),
     CachedProperty(Method)}

PkgMod == <<"pkg.mod">>
PathC == << <<"C">> >>
PathCm == << <<"C">>, <<"m">> >>
AttrOutcomes == {"ok", "AttributeError", "RuntimeError"}

World(modules, attrC, attrCm, objC, objCm) ==
    [modules |-> modules,
     attr |-> (PathC :> attrC) @@ (PathCm :> attrCm),
     obj |-> (PathC :> objC) @@ (PathCm :> objCm)]

\* The programs a build is run on: C and C.m defined at different places;
\* C.m a property whose getter is defined elsewhere; C.m missing; C.m raising
\* on access; pkg.mod not imported.
BuildWorlds ==
    {World({PkgMod}, "ok", "ok", Class, Method),
     World({PkgMod}, "ok", "ok", Class, Property(Class)),
     World({PkgMod}, "ok", "AttributeError", Class, Method),
     World({PkgMod}, "ok", "RuntimeError", Class, Method),
     World({}, "ok", "ok", Class, Method)}

ApiWorlds ==
    {World(mods, aC, aCm, Class, o) :
        mods \in {{}, {PkgMod}}, aC \in AttrOutcomes, aCm \in AttrOutcomes, o \in Objects}

(* Inputs: references and doctrees *)

Domains == {"py", "c", "std"}

Dict(module, fullname) == ("module" :> module) @@ ("fullname" :> fullname)

Fullnames == {<<>>, <<"C">>, <<"C", ".", "m">>, <<"C", ".", "x">>}

Infos ==
    {Dict(m, f) : m \in {<<>>, PkgMod, <<"other">>}, f \in Fullnames}
    \cup {("module" :> PkgMod), ("fullname" :> <<"C", ".", "m">>),
          ("names" :> <<"C_m">>), <<>>}

NonSignature == [is_signature |-> FALSE, attrs |-> <<>>]
Signature(attrs) == [is_signature |-> TRUE, attrs |-> attrs]

Signodes ==
    {NonSignature,
     Signature(<<>>),
     Signature(Dict(PkgMod, <<"C">>) @@ ("names" :> <<"C">>)),
     Signature(Dict(PkgMod, <<"C", ".", "m">>) @@ ("names" :> <<"C_m">>))}

MaxSigs == 2

ChildSeqs == UNION {[1..n -> Signodes] : n \in 0..MaxSigs}
DescNodes == [domain : Domains, children : ChildSeqs]

\* One desc node, or two of one domain whose children number at most MaxSigs
\* together.
Doctrees ==
    {<<a>> : a \in DescNodes}
    \cup UNION {{<<a, b>> : b \in {n \in DescNodes :
                                      /\ n.domain = a.domain
                                      /\ Len(n.children) <= MaxSigs - Len(a.children)}} :
                a \in DescNodes}

NoCall == [fn |-> "", blob |-> None, context |-> NoContext, url |-> None,
           domain |-> "", info |-> <<>>]

-----------------------------------------------------------------------------
(* setup() and the handlers it connects *)

Init ==
    /\ pc = "start"
    /\ config \in Configs
    /\ git \in Gits
    /\ world \in BuildWorlds
    \* the loaded program is varied where conf.py sets no linkcode_resolve
    /\ config.linkcode_resolve # NoResolver => world = World({PkgMod}, "ok", "ok", Class, Method)
    /\ blob = None
    /\ linkcode_url = None
    /\ repo_dir = <<>>
    /\ error = ""
    /\ vcs_log = <<>>
    /\ connected = {}
    /\ doctree = <<>>
    /\ links = <<>>
    /\ call = NoCall
    /\ ret = NoRet

\* Lines 85-90: linkcode_blob is read and resolved.
SetupRevision ==
    /\ pc = "start"
    /\ LET r == get_linkcode_revision(get_conf_val(config, "linkcode_blob"), git)
       IN  /\ vcs_log' = vcs_log \o r.vcs
           /\ IF r.exc # ""
              THEN pc' = "failed" /\ error' = r.exc /\ blob' = blob
              ELSE pc' = "url" /\ error' = error /\ blob' = r.val
    /\ connected' = connected \cup {"builder-inited"}
    /\ UNCHANGED <<config, git, world, linkcode_url, repo_dir, doctree, links, call, ret>>

\* Lines 89-93: the URL template.
SetupUrl ==
    /\ pc = "url"
    /\ LET r == get_linkcode_url(blob, get_conf_val(config, "html_context"),
                                 get_conf_val(config, "linkcode_url"), git)
       IN  /\ vcs_log' = vcs_log \o r.vcs
           /\ IF r.exc # ""
              THEN pc' = "failed" /\ error' = r.exc /\ linkcode_url' = linkcode_url
              ELSE pc' = "repo" /\ error' = error /\ linkcode_url' = r.val
    /\ UNCHANGED <<config, git, world, blob, repo_dir, connected, doctree, links, call, ret>>

\* Lines 94-95: the repository root.
SetupRepoDir ==
    /\ pc = "repo"
    /\ LET r == get_repo_dir(git)
       IN  /\ vcs_log' = vcs_log \o r.vcs
           /\ IF r.exc # ""
              THEN pc' = "failed" /\ error' = r.exc /\ repo_dir' = repo_dir
              ELSE pc' = "resolver" /\ error' = error /\ repo_dir' = r.val
    /\ UNCHANGED <<config, git, world, blob, linkcode_url, connected, doctree, links, call, ret>>

\* SetupResolver without the test of line 97: the built-in resolver always wins.
SetupResolverAlways ==
    /\ pc = "resolver"
    /\ pc' = "connect"
    /\ config' = set_conf_val(config, "linkcode_resolve",
                              get_linkcode_resolve(linkcode_url, repo_dir))
    /\ UNCHANGED <<git, world, blob, linkcode_url, repo_dir, error, vcs_log, connected,
                   doctree, links, call, ret>>

\* Lines 97-103: the built-in resolver is installed unless conf.py gives one.
SetupResolver ==
    /\ pc = "resolver"
    /\ pc' = "connect"
    /\ config' = IF ~callable(get_conf_val(config, "linkcode_resolve"))
                 THEN set_conf_val(config, "linkcode_resolve",
                                   get_linkcode_resolve(linkcode_url, repo_dir))
                 ELSE config
    /\ UNCHANGED <<git, world, blob, linkcode_url, repo_dir, error, vcs_log, connected,
                   doctree, links, call, ret>>

\* Lines 105-113: the doctree-read handler is connected and setup returns.
SetupConnect ==
    /\ pc = "connect"
    /\ pc' = "done"
    /\ connected' = connected \cup {"doctree-read"}
    /\ UNCHANGED <<config, git, world, blob, linkcode_url, repo_dir, error, vcs_log,
                   doctree, links, call, ret>>

\* The doctree-read event: doctree_read(app, doctree), lines 32-81.  The
\* handler reads config and the loaded program and writes neither, so one
\* event per behaviour shows all it can do.
DoctreeRead ==
    /\ "doctree-read" \in connected
    /\ doctree = <<>> /\ call = NoCall
    /\ \E tree \in Doctrees :
         LET r == doctree_read(config, world, tree)
         IN  /\ doctree' = tree
             /\ links' = r.links
             /\ error' = r.exc
    /\ call' = NoCall
    /\ ret' = NoRet
    /\ UNCHANGED <<pc, config, git, world, blob, linkcode_url, repo_dir, vcs_log, connected>>

\* A call of config.linkcode_resolve(domain, info) from outside doctree_read.
ResolveCall ==
    /\ pc = "done"
    /\ callable(config.linkcode_resolve)
    /\ doctree = <<>> /\ call = NoCall
    /\ \E domain \in Domains, info \in Infos :
         /\ call' = [NoCall EXCEPT !.fn = "linkcode_resolve", !.domain = domain, !.info = info]
         /\ ret' = resolve_target(config.linkcode_resolve, world, domain, info)
    /\ doctree' = <<>>
    /\ links' = <<>>
    /\ error' = ""
    /\ UNCHANGED <<pc, config, git, world, blob, linkcode_url, repo_dir, vcs_log, connected>>

Next ==
    \/ SetupRevision
    \/ SetupUrl
    \/ SetupRepoDir
    \/ SetupResolver
    \/ SetupConnect
    \/ DoctreeRead
    \/ ResolveCall

Spec == Init /\ [][Next]_vars

-----------------------------------------------------------------------------
(* Direct calls of the revision and URL functions *)

ApiBlobs == Blobs \cup {None, <<>>}
ApiContexts ==
    {NoContext, EmptyContext, UserRepoContext,
     Context(<<"u">>, <<"r">>, <<"v2.0">>), Context(None, None, <<"v2.0">>)}
ApiUrls == Urls \cup {None}

DefaultConfig ==
    [linkcode_blob |-> None, linkcode_url |-> None, html_context |-> EmptyContext,
     linkcode_resolve |-> NoResolver]

InitVcs ==
    /\ pc = "api"
    /\ config = DefaultConfig
    /\ git \in Gits
    /\ world = World({}, "ok", "ok", Class, Method)
    /\ blob = None
    /\ linkcode_url = None
    /\ repo_dir = <<>>
    /\ error = ""
    /\ vcs_log = <<>>
    /\ connected = {}
    /\ doctree = <<>>
    /\ links = <<>>
    /\ call = NoCall
    /\ ret = NoRet

\* get_linkcode_revision(blob), lines 123-139.
ApiGetLinkcodeRevision ==
    /\ pc = "api" /\ call = NoCall
    /\ \E b \in ApiBlobs :
         /\ call' = [NoCall EXCEPT !.fn = "get_linkcode_revision", !.blob = b]
         /\ ret' = get_linkcode_revision(b, git)
    /\ vcs_log' = vcs_log \o ret'.vcs
    /\ UNCHANGED <<pc, config, git, world, blob, linkcode_url, repo_dir, error, connected,
                   doctree, links>>

\* get_linkcode_url(blob, context, url), lines 179-207.
ApiGetLinkcodeUrl ==
    /\ pc = "api" /\ call = NoCall
    /\ \E b \in ApiBlobs, context \in ApiContexts, url \in ApiUrls :
         /\ call' = [NoCall EXCEPT !.fn = "get_linkcode_url", !.blob = b,
                                   !.context = context, !.url = url]
         /\ ret' = get_linkcode_url(b, context, url, git)
    /\ vcs_log' = vcs_log \o ret'.vcs
    /\ UNCHANGED <<pc, config, git, world, blob, linkcode_url, repo_dir, error, connected,
                   doctree, links>>

\* get_repo_dir(), lines 279-291.
ApiGetRepoDir ==
    /\ pc = "api" /\ call = NoCall
    /\ call' = [NoCall EXCEPT !.fn = "get_repo_dir"]
    /\ ret' = get_repo_dir(git)
    /\ vcs_log' = vcs_log \o ret'.vcs
    /\ UNCHANGED <<pc, config, git, world, blob, linkcode_url, repo_dir, error, connected,
                   doctree, links>>

NextVcs ==
    \/ ApiGetLinkcodeRevision
    \/ ApiGetLinkcodeUrl
    \/ ApiGetRepoDir

SpecVcs == InitVcs /\ [][NextVcs]_vars

-----------------------------------------------------------------------------
(* Direct calls of the built-in resolver *)

\* The closure is made for the template of revision "main" and the root of
\* the repository; the loaded program is any of ApiWorlds.
InitResolve ==
    /\ pc = "api"
    /\ config = DefaultConfig
    /\ git = Repo(None, None)
    /\ world \in ApiWorlds
    /\ blob = <<"main">>
    /\ linkcode_url = get_linkcode_url(<<"main">>, EmptyContext,
                          <<"https:", "/", "/", "github.com", "/", "u", "/", "r">>,
                          Repo(None, None)).val
    /\ repo_dir = get_repo_dir(Repo(None, None)).val
    /\ error = ""
    /\ vcs_log = <<>>
    /\ connected = {}
    /\ doctree = <<>>
    /\ links = <<>>
    /\ call = NoCall
    /\ ret = NoRet

\* get_linkcode_resolve(linkcode_url, repo_dir)(domain, info), lines 210-275.
ApiLinkcodeResolve ==
    /\ pc = "api" /\ call = NoCall
    /\ \E domain \in Domains, info \in Infos :
         /\ call' = [NoCall EXCEPT !.fn = "linkcode_resolve", !.domain = domain, !.info = info]
         /\ ret' = resolve_target(get_linkcode_resolve(linkcode_url, repo_dir), world,
                                  domain, info)
    /\ UNCHANGED <<pc, config, git, world, blob, linkcode_url, repo_dir, error, vcs_log,
                   connected, doctree, links>>

NextResolve == ApiLinkcodeResolve

SpecResolve == InitResolve /\ [][NextResolve]_vars

-----------------------------------------------------------------------------
(* Properties of doctree_read *)

\* Whether doctree_read asks the resolver about child i of desc node n.
Asked(n, i) ==
    /\ doctree[n].children[i].is_signature
    /\ domain_keys(doctree[n].domain) # {}

\* What the configured resolver answers for child i of desc node n.
Answer(n, i) ==
    resolve_target(config.linkcode_resolve, world, doctree[n].domain,
                   SigInfo(doctree[n].domain, doctree[n].children[i]))

\* The first child of node n for which the resolver gives the answer it gives for child i.
FirstWith(n, i) ==
    ~\E j \in 1..(i - 1) : Asked(n, j) /\ Answer(n, j).val = Answer(n, i).val

\* C1: on every desc node the links attached by doctree_read carry pairwise
\* distinct URLs: a child gets a link exactly when it is a signature the
\* resolver answers with a non-empty URL that no earlier signature of the same
\* node was answered with, the link carries that URL, and no child gets two.
C1_OneLinkPerUrl ==
    \A n \in DOMAIN links :
        /\ \A i \in DOMAIN links[n] :
             links[n][i] = IF Asked(n, i) /\ Truthy(Answer(n, i).val) /\ FirstWith(n, i)
                           THEN <<Answer(n, i).val>> ELSE <<>>
        /\ \A i \in DOMAIN links[n], j \in DOMAIN links[n] :
             i # j /\ links[n][i] # <<>> => links[n][i] # links[n][j]
        /\ error = "" => Len(links[n]) = Len(doctree[n].children)

\* Two signatures of one node of a doctree of two resolve to the same URL and
\* only the first is linked.
C1_Witness ==
    /\ error = "" /\ Len(links) = 2
    /\ \E n \in DOMAIN links : \E i \in DOMAIN links[n], j \in DOMAIN links[n] :
         /\ i < j /\ Asked(n, i) /\ Asked(n, j)
         /\ Truthy(Answer(n, i).val) /\ Answer(n, j).val = Answer(n, i).val
         /\ links[n][i] = <<Answer(n, i).val>> /\ links[n][j] = <<>>

BuiltinInstalled == config.linkcode_resolve.fn = "linkcode_resolve"

\* C9: the built-in resolver answers None, without raising, for every domain
\* other than py whatever the info; and with the built-in resolver installed
\* doctree_read attaches no link to a node of another domain and is not
\* aborted by such nodes.
C9_OnlyPy ==
    /\ (call.fn = "linkcode_resolve" /\ BuiltinInstalled /\ call.domain # "py")
          => ret = Return(None, <<>>)
    /\ BuiltinInstalled =>
          /\ \A n \in DOMAIN links :
                doctree[n].domain # "py" => \A i \in DOMAIN links[n] : links[n][i] = <<>>
          /\ (\A n \in DOMAIN doctree : doctree[n].domain # "py")
                => error = "" /\ Len(links) = Len(doctree)

\* The built-in resolver is called for domain c with the module and name of a
\* method it links in domain py, and answers None.
C9_Witness ==
    /\ call.fn = "linkcode_resolve" /\ BuiltinInstalled /\ call.domain = "c"
    /\ call.info = Dict(PkgMod, <<"C", ".", "m">>)
    /\ resolve_target(config.linkcode_resolve, world, "py", call.info).val
         \notin {None, <<>>}
    /\ ret.val = None

\* C10: a callable linkcode_resolve of conf.py is never replaced; config
\* changes only when setup installs the built-in resolver, for the template
\* and root it computed, in place of a value that is not callable and before
\* the doctree-read handler is connected; once the handler is connected
\* linkcode_resolve is callable, doctree_read never raises LinkcodeError, and
\* with a function of conf.py every link is what that function returns for
\* the signature's domain and info.
C10_UserResolverKept ==
    /\ [][/\ callable(config.linkcode_resolve) => config' = config
          /\ config' # config =>
                /\ pc = "resolver" /\ "doctree-read" \notin connected
                /\ config' = [config EXCEPT !.linkcode_resolve =
                                 get_linkcode_resolve(linkcode_url, repo_dir)]]_vars
    /\ [](/\ "doctree-read" \in connected => callable(config.linkcode_resolve)
          /\ error # "LinkcodeError"
          /\ ~BuiltinInstalled =>
                \A n \in DOMAIN links : \A i \in DOMAIN links[n] :
                    links[n][i] # <<>> =>
                        links[n][i] = <<UserResolve(config.linkcode_resolve.fn,
                                           doctree[n].domain,
                                           SigInfo(doctree[n].domain,
                                                   doctree[n].children[i])).val>>)

\* setup has returned with the function of conf.py in place and doctree_read
\* has attached a link that function returned.
C10_Witness ==
    /\ pc = "done" /\ config.linkcode_resolve = UserResolver("by_name")
    /\ \E n \in DOMAIN links : \E i \in DOMAIN links[n] :
         links[n][i] = << <<"https://example.org/", "py", "/", "C", ".", "m">> >>

\* C3 (as claimed): once setup has the URL template, the revision was resolved
\* once: in mode head the most recent commit was asked for once, and the
\* template embeds the value that resolution returned.
C3_RevisionResolvedOnce ==
    pc \in {"repo", "resolver", "connect", "done"} =>
        /\ get_conf_val(config, "linkcode_blob") = <<"head">> => Count(vcs_log, "log") = 1
        /\ Contains(linkcode_url, <<"/blob/">> \o blob \o <<"/">> \o UrlSuffix)

-----------------------------------------------------------------------------
(* Properties of the revision and URL functions *)

\* C4: get_linkcode_revision("head") returns the tag of the most recent
\* commit when it has one, its hash when it has none, and "master", without
\* raising, when git fails to name the most recent commit.
C4_Head ==
    (call.fn = "get_linkcode_revision" /\ call.blob = <<"head">>) =>
        /\ ret.exc = ""
        /\ git.repo /\ git.head_tag # None => ret.val = git.head_tag
        /\ git.repo /\ git.head_tag = None => ret.val = git.head
        /\ ~git.repo => ret.val = <<"master">>

\* The most recent commit is tagged v1.0 and "v1.0" is returned.
C4_Witness ==
    /\ call.fn = "get_linkcode_revision" /\ call.blob = <<"head">>
    /\ git.head_tag = <<"v1.0">> /\ ret.val = <<"v1.0">>

\* C5 (as claimed): get_linkcode_url raises ExtensionError whenever blob is
\* empty or None and the context is None or has no github_version.
C5_ConfigurationError ==
    (/\ call.fn = "get_linkcode_url"
     /\ ~Truthy(call.blob)
     /\ call.context.is_none \/ call.context.github_version = None)
        => ret.exc = ExtensionError

\* C6 (as claimed): outside a repository get_repo_dir raises the configuration
\* error, raised from the error of the git call.
C6_RepoDirConfigurationError ==
    (call.fn = "get_repo_dir" /\ ~git.repo) =>
        ret.exc = ExtensionError /\ ret.cause = "CalledProcessError"

\* The base URL and the revision get_linkcode_url works from.
CallBase ==
    IF call.url # None THEN call.url
    ELSE <<"https:", "/", "/", "github.com", "/">> \o call.context.github_user
            \o <<"/">> \o call.context.github_repo
CallRevision ==
    IF Truthy(call.blob) THEN get_linkcode_revision(call.blob, git).val
    ELSE call.context.github_version

\* C7 (as claimed): the template is the base URL without its trailing
\* slashes, then /blob/<revision>/, then {filepath}#L{linestart}-L{linestop},
\* with each slot once.
C7_Template ==
    (call.fn = "get_linkcode_url" /\ ret.exc = "") =>
        /\ ret.val = RStrip(CallBase, "/") \o <<"/blob/">> \o CallRevision \o <<"/">>
                        \o UrlSuffix
        /\ \A slot \in {"{filepath}", "{linestart}", "{linestop}"} : Count(ret.val, slot) = 1

-----------------------------------------------------------------------------
(* Properties of the built-in resolver *)

\* C2 (as claimed): no exception escapes linkcode_resolve.
C2_NoException ==
    call.fn = "linkcode_resolve" => ret.exc = ""

\* The object a py reference names, with a property replaced by its getter
\* and a decorated function by the function it wraps.
Named(info) ==
    LET obj == world.obj[IF info["fullname"] = <<"C">> THEN PathC ELSE PathCm]
        got == CASE obj.kind = "property" -> obj.fget
                 [] obj.kind = "cached_property" -> obj.func
                 [] OTHER -> obj
    IN  IF got.kind = "function" /\ got.wrapped.kind = "function" THEN got.wrapped ELSE got

\* The lookup of a py reference succeeds: the module is loaded, each segment
\* of the name resolves, the source file is under the repository root and
\* the source lines are found.
Succeeds(info) ==
    /\ DOMAIN info = {"module", "fullname"}
    /\ info["module"] \in world.modules
    /\ \/ info["fullname"] = <<"C">> /\ world.attr[PathC] = "ok"
       \/ info["fullname"] = <<"C", ".", "m">>
            /\ world.attr[PathC] = "ok" /\ world.attr[PathCm] = "ok"
    /\ Named(info).kind \in {"function", "module"}
    /\ Named(info).file # None
    /\ SubSeq(Named(info).file, 1, 2) = repo_dir
    /\ Named(info).lines_ok

FirstLine(obj) == IF obj.kind = "module" THEN 0 ELSE obj.lineno

=============================================================================
